---------------------------- MODULE Spec2Model ----------------------------
(***************************************************************************)
(* The negotiate endpoints of the Web PubSub gateway, and the programs     *)
(* around them.                                                            *)
(*                                                                         *)
(* The repository holds three variants of the negotiate function:          *)
(*   "backend"  src/backend/negotiate/__init__.py                          *)
(*   "back"     src/back/negotiate/__init__.py                             *)
(*   "flat"     src/back/negotiate.py (its statements, in file order)      *)
(* two health endpoints:                                                   *)
(*   "health"   src/backend/health/__init__.py                             *)
(*   "healthz"  src/backend/healthz/__init__.py                            *)
(* an example function:                                                    *)
(*   "send-message"  src/examples/send-message/__init__.py                 *)
(* and two test clients:                                                   *)
(*   "test_webpubsub"  src/test_webpubsub.py                               *)
(*   "test_signalr"    src/test_signalr.py                                 *)
(* impl is the program that runs, with one process environment.  A         *)
(* request (for a test client: a run of the script) is handled by a worker *)
(* of the host; the handler is modelled as the steps of its code, one      *)
(* action per step.  pool is the set of workers the host runs: under Spec  *)
(* the host has one worker, so calls follow one another; under             *)
(* SpecConcurrent every worker takes calls.                                *)
(***************************************************************************)
EXTENDS Naturals, Integers, Sequences, FiniteSets, TLC

VARIABLES
    impl,        \* the program that runs
    environ,     \* os.environ of the deployment
    pool,        \* the workers of the function host
    call,        \* call[w]: the invocation worker w is running (or ran last)
    uuidCount    \* number of identities uuid.uuid4() has produced so far

vars == <<impl, environ, pool, call, uuidCount>>

(***************************************************************************)
(* Bounds                                                                  *)
(***************************************************************************)
MaxWorkers == 2      \* workers of the concurrent host
MaxUuids == 2        \* identities generated in one behaviour

(***************************************************************************)
(* Strings.  Python's None is the value None; a parameter that is absent   *)
(* from the query string or from the JSON body reads as None.              *)
(***************************************************************************)
None == "<None>"

Negotiators == {"backend", "back", "flat"}
Probes == {"health", "healthz"}
Examples == {"send-message"}
TestClients == {"test_webpubsub", "test_signalr"}
Impls == Negotiators \cup Probes \cup Examples \cup TestClients
Workers == 1..MaxWorkers

Methods == {"GET", "POST", "OPTIONS", "PUT"}
RoomInputs == {None, "", " ", "r1", "r2"}
UserInputs == {None, "", " ", "alice"}
UserIdInputs == {None, "u7"}
RoleInputs == {None, "", "reader", "writer", "WRITER", "admin", "owner"}

\* str.lower() on the strings of the model
Lower(s) ==
    CASE s = "WRITER" -> "writer"
      [] s = "TRUE" -> "true"
      [] OTHER -> s

\* str.strip() on the strings of the model; no variant trims its
\* parameters, the claims about blank parameters do
Strip(s) == IF s = " " THEN "" ELSE s

\* Python truthiness of an optional string: None and "" are falsy
Truthy(s) == s \notin {None, ""}

\* Python's `a or b`
Or(a, b) == IF Truthy(a) THEN a ELSE b

\* dict.get(key, default) on a value that reads None when the key is absent
Get(v, default) == IF v = None THEN default ELSE v

(***************************************************************************)
(* Permission strings.  The provider's syntax is                           *)
(* "webpubsub.<capability>" (every group) or                               *)
(* "webpubsub.<capability>.<group>" (one group); a permission string is    *)
(* kept as the tuple of its dot-separated parts.                           *)
(***************************************************************************)
Unscoped == "<any group>"

Perm(capability) == <<"webpubsub", capability>>
PermFor(capability, group) == <<"webpubsub", capability, group>>

Capability(p) == p[2]
Scope(p) == IF Len(p) = 3 THEN p[3] ELSE Unscoped

Range(s) == {s[i] : i \in DOMAIN s}


(***************************************************************************)
(* Requests.  A variant reads only some parts of a request; the parts it   *)
(* never reads are held at one value (backend, which never reads the body, *)
(* is sent no body or one full JSON object).                               *)
(***************************************************************************)
NoBody == [kind |-> "invalid", room_id |-> None, username |-> None, role |-> None]

\* the JSON body {"room_id": "r2", "username": "bob", "role": "writer"}
FullBody == [kind |-> "object", room_id |-> "r2", username |-> "bob", role |-> "writer"]

\* req.get_json(): raises for an absent or malformed body ("invalid"),
\* returns a list for a JSON array ("list"), a dict for a JSON object
BodyInputs ==
    { NoBody,
      [kind |-> "list", room_id |-> None, username |-> None, role |-> None],
      [kind |-> "object", room_id |-> None, username |-> None, role |-> None],
      FullBody }

Requests(variant) ==
    CASE variant = "backend" ->
           [method : Methods, room_id : RoomInputs, username : UserInputs,
            user_id : UserIdInputs, role : RoleInputs, body : {NoBody, FullBody}]
      [] variant = "back" ->
           [method : Methods, room_id : RoomInputs, username : UserInputs,
            user_id : {None}, role : RoleInputs, body : BodyInputs]
      [] variant = "flat" ->
           [method : {"GET"}, room_id : RoomInputs, username : UserInputs,
            user_id : {None}, role : RoleInputs, body : {NoBody}]
      [] variant = "send-message" ->
           \* send-message reads the body only: unreadable, a JSON list, or a
           \* JSON object with or without message and userId
           [method : {"POST"}, room_id : {None}, username : {None},
            user_id : {None}, role : {None},
            body : {[kind |-> "invalid", message |-> None, userId |-> None],
                    [kind |-> "list", message |-> None, userId |-> None]}
                   \cup [kind : {"object"}, message : {None, "hi"},
                         userId : {None, "", "u7"}]]
      [] variant \in TestClients ->
           \* a run of a test script: ROOM_ID, USERNAME and USER_ROLE are its
           \* configuration (test_signalr sends no parameters)
           [method : {"GET"},
            room_id : IF variant = "test_webpubsub" THEN {"r1", "r2"} ELSE {None},
            username : IF variant = "test_webpubsub" THEN {"alice"} ELSE {None},
            user_id : {None},
            role : IF variant = "test_webpubsub" THEN {"writer", "reader"}
                                                  ELSE {None},
            body : {NoBody}]
      [] OTHER ->
           \* the health endpoints read nothing of the request
           [method : {"GET", "OPTIONS"}, room_id : {None}, username : {None},
            user_id : {None}, role : {None}, body : {NoBody}]

NoRequest ==
    [method |-> None, room_id |-> None, username |-> None, user_id |-> None,
     role |-> None, body |-> NoBody]

(***************************************************************************)
(* The environment.  CONNECTION_STRING is the connection-string setting    *)
(* the variant reads (AZURE_WEB_PUBSUB_CONNECTION_STRING in backend,       *)
(* WEB_PUBSUB_CONNECTION_STRING in back and flat; the health endpoints     *)
(* read AZURE_WEB_PUBSUB_CONNECTION_STRING).  The hub setting is left      *)
(* unset for the negotiate variants, so each uses its default hub.         *)
(***************************************************************************)
ConnectionString == "Endpoint=https://ps.example;AccessKey=k;Version=1.0;"

\* connection strings the health endpoints are run with: the parts of a
\* connection string may come in any order, and a part may be missing
KeyFirst == "AccessKey=k1k1k1k1k1;Endpoint=https://ps.example;Version=1.0;"
KeyFirstOther == "AccessKey=k2k2k2k2k2;Endpoint=https://ps.example;Version=1.0;"
ConnectionStringOther == "Endpoint=https://ps.example;AccessKey=j;Version=1.0;"
ProbeConnectionStrings ==
    { None, "", ConnectionString, ConnectionStringOther, KeyFirst, KeyFirstOther,
      "Endpoint=https://ps.example;AccessKey=k",
      "Endpoint=https://ps.example;Version=1.0;",
      "AccessKey=k;Version=1.0;",
      "AccessKey=k" }

Environs(variant) ==
    [CONNECTION_STRING :
        IF variant \in Probes THEN ProbeConnectionStrings
        ELSE IF variant \in Examples \cup TestClients THEN {None}
        ELSE {None, ConnectionString},
     INCLUDE_ACCESS_TOKEN :
        IF variant = "backend" THEN {None, "TRUE", "1"} ELSE {None},
     WEB_PUBSUB_HUB_NAME :
        IF variant \in Probes THEN {None, "", "hub1"} ELSE {None}]

(***************************************************************************)
(* The provider (WebPubSubServiceClient).  What it answers to one token    *)
(* request is its own choice.                                              *)
(***************************************************************************)
ProviderOutcomes == {"ok", "baseurl", "nourl", "http401", "error", "ctor_error"}

WsUrl == "wss://ps.example/client/hubs/h?access_token=jwt"
WsBaseUrl == "wss://ps.example/client/hubs/h"

NoToken == [url |-> None, baseUrl |-> None, token |-> None]

TokenOf(outcome) ==
    CASE outcome = "ok" -> [url |-> WsUrl, baseUrl |-> WsBaseUrl, token |-> "jwt"]
      [] outcome = "baseurl" -> [url |-> None, baseUrl |-> WsBaseUrl, token |-> "jwt"]
      [] OTHER -> [url |-> None, baseUrl |-> None, token |-> "jwt"]

NoExc == [type |-> None, http |-> FALSE, status |-> None]

ExcOf(outcome) ==
    CASE outcome = "http401" ->
           [type |-> "ClientAuthenticationError", http |-> TRUE, status |-> "401"]
      [] outcome = "ctor_error" ->
           [type |-> "ValueError", http |-> FALSE, status |-> None]
      [] OTHER ->
           [type |-> "ServiceRequestError", http |-> FALSE, status |-> None]

Raises(outcome) == outcome \in {"http401", "error", "ctor_error"}

\* one get_client_access_token request as the provider receives it; a
\* keyword that is not passed is the empty set
TokenRequest(user, rs, gs, minutes) ==
    [user_id |-> user, roles |-> rs, groups |-> gs, minutes_to_expire |-> minutes]

(***************************************************************************)
(* Results of a call: an HTTP response, or an exception that leaves main.  *)
(***************************************************************************)
NoResult == [kind |-> "none"]

HttpResponse(status, isJson, body, headers) ==
    [kind |-> "response", status |-> status, json |-> isJson, body |-> body,
     headers |-> headers]

Raise(type) == [kind |-> "raise", type |-> type]

\* the connection of a test client: what was done with it so far
NoClient ==
    [built |-> FALSE, opened |-> FALSE, connected |-> FALSE, joined |-> {},
     sent |-> <<>>, closed |-> FALSE, negotiated |-> None]

NoCall ==
    [pc |-> "idle", req |-> NoRequest, room_id |-> None, user_id |-> None,
     role |-> None, roles |-> <<>>, generated |-> FALSE, clientBuilt |-> FALSE,
     requests |-> <<>>, token |-> NoToken, exc |-> NoExc, result |-> NoResult,
     signalRMessages |-> <<>>, client |-> NoClient]

\* str(uuid.uuid4()): the n-th identity generated
Uuid(n) == "uuid-" \o ToString(n)

Init ==
    /\ impl \in Impls
    /\ environ \in Environs(impl)
    /\ pool = {1}
    /\ call = [w \in Workers |-> NoCall]
    /\ uuidCount = 0

\* the host hands a request to a worker that is not running a call
Receive(w) ==
    /\ w \in pool
    /\ call[w].pc = "idle"
    /\ \E r \in Requests(impl) :
          call' = [call EXCEPT ![w] = [NoCall EXCEPT !.pc = "start", !.req = r]]
    /\ UNCHANGED <<impl, environ, pool, uuidCount>>


(***************************************************************************)
(* backend: src/backend/negotiate/__init__.py                              *)
(***************************************************************************)
BackendHub == "ViewerHub"

\* lines 28-34
BackendMethod(w) ==
    /\ w \in pool
    /\ impl = "backend"
    /\ call[w].pc = "start"
    /\ IF call[w].req.method \notin {"GET", "POST"}
       THEN call' = [call EXCEPT
                ![w].pc = "done",
                ![w].result = HttpResponse(405, TRUE,
                    [error |-> "Method not allowed. Use GET or POST."],
                    {<<"Content-Type", "application/json">>})]
       ELSE call' = [call EXCEPT ![w].pc = "room"]
    /\ UNCHANGED <<impl, environ, pool, uuidCount>>

\* lines 36-49: the 400 response is built with `headers`, a name that main
\* never binds, so building it raises NameError
BackendRoom(w) ==
    /\ w \in pool
    /\ impl = "backend"
    /\ call[w].pc = "room"
    /\ LET room_id == call[w].req.room_id IN
       IF ~Truthy(room_id)
       THEN call' = [call EXCEPT ![w].pc = "done", ![w].room_id = room_id,
                                 ![w].result = Raise("NameError")]
       ELSE call' = [call EXCEPT ![w].pc = "user", ![w].room_id = room_id]
    /\ UNCHANGED <<impl, environ, pool, uuidCount>>

\* line 52: req.params.get('username', req.params.get('user_id'))
BackendUserParam(req) == Get(req.username, req.user_id)

\* lines 51-57
BackendUser(w) ==
    /\ w \in pool
    /\ impl = "backend"
    /\ call[w].pc = "user"
    /\ LET user_id == BackendUserParam(call[w].req) IN
       IF ~Truthy(user_id)
       THEN /\ uuidCount < MaxUuids
            /\ uuidCount' = uuidCount + 1
            /\ call' = [call EXCEPT ![w].pc = "role",
                                    ![w].user_id = Uuid(uuidCount + 1),
                                    ![w].generated = TRUE]
       ELSE /\ call' = [call EXCEPT ![w].pc = "role", ![w].user_id = user_id]
            /\ UNCHANGED uuidCount
    /\ UNCHANGED <<impl, environ, pool>>

\* BackendRole with the fallback of line 62 set to 'writer'
BackendRoleUpgrades(raw) ==
    LET role == Lower(Get(raw, "reader")) IN
    IF role \notin {"writer", "reader", "admin"} THEN "writer" ELSE role

\* lines 59-62
BackendRole(raw) ==
    LET role == Lower(Get(raw, "reader")) IN
    IF role \notin {"writer", "reader", "admin"} THEN "reader" ELSE role

\* lines 64-74
BackendRoles(role, room_id) ==
    <<PermFor("joinLeaveGroup", room_id), Perm("sendToGroup")>>
    \o (IF role \in {"writer", "admin"}
        THEN <<PermFor("sendToGroup", room_id), Perm("sendToGroup")>>
        ELSE <<>>)

\* lines 59-83
BackendPermissions(w) ==
    /\ w \in pool
    /\ impl = "backend"
    /\ call[w].pc = "role"
    /\ LET role == BackendRole(call[w].req.role) IN
       call' = [call EXCEPT ![w].pc = "config", ![w].role = role,
                            ![w].roles = BackendRoles(role, call[w].room_id)]
    /\ UNCHANGED <<impl, environ, pool, uuidCount>>

\* lines 85-103: the 500 response is built with the unbound `headers` too
BackendConfig(w) ==
    /\ w \in pool
    /\ impl = "backend"
    /\ call[w].pc = "config"
    /\ IF ~Truthy(environ.CONNECTION_STRING)
       THEN call' = [call EXCEPT ![w].pc = "done", ![w].result = Raise("NameError")]
       ELSE call' = [call EXCEPT ![w].pc = "token"]
    /\ UNCHANGED <<impl, environ, pool, uuidCount>>

\* lines 105-117: from_connection_string, then get_client_access_token
BackendToken(w) ==
    /\ w \in pool
    /\ impl = "backend"
    /\ call[w].pc = "token"
    /\ \E outcome \in ProviderOutcomes :
          IF outcome = "ctor_error"
          THEN call' = [call EXCEPT ![w].pc = "except", ![w].exc = ExcOf(outcome)]
          ELSE LET sent == Append(call[w].requests,
                               TokenRequest(call[w].user_id, call[w].roles, <<>>, {60}))
               IN IF Raises(outcome)
                  THEN call' = [call EXCEPT ![w].pc = "except",
                                            ![w].clientBuilt = TRUE,
                                            ![w].requests = sent,
                                            ![w].exc = ExcOf(outcome)]
                  ELSE call' = [call EXCEPT ![w].pc = "respond",
                                            ![w].clientBuilt = TRUE,
                                            ![w].requests = sent,
                                            ![w].token = TokenOf(outcome)]
    /\ UNCHANGED <<impl, environ, pool, uuidCount>>

\* BackendResponseData without the test of line 130: accessToken always
BackendResponseDataWithToken(c, include) ==
    [url |-> c.token.url, userId |-> c.user_id, roles |-> c.roles,
     hub |-> BackendHub, room |-> c.room_id, expiresIn |-> 3600,
     accessToken |-> Get(c.token.token, "")]

\* lines 119-131
BackendResponseData(c, include) ==
    LET data == [url |-> c.token.url, userId |-> c.user_id, roles |-> c.roles,
                 hub |-> BackendHub, room |-> c.room_id, expiresIn |-> 3600]
    IN IF Lower(Get(include, "false")) = "true"
       THEN [url |-> data.url, userId |-> data.userId, roles |-> data.roles,
             hub |-> data.hub, room |-> data.room, expiresIn |-> data.expiresIn,
             accessToken |-> Get(c.token.token, "")]
       ELSE data

\* BackendRespond building the response from variables shared by the
\* workers: those of whichever call wrote them last
BackendRespondShared(w) ==
    /\ w \in pool
    /\ impl = "backend"
    /\ call[w].pc = "respond"
    /\ \E v \in pool :
          /\ call[v].roles # <<>>
          /\ call' = [call EXCEPT
                ![w].pc = "done",
                ![w].result = HttpResponse(200, TRUE,
                    BackendResponseData(call[v], environ.INCLUDE_ACCESS_TOKEN),
                    {<<"Content-Type", "application/json">>,
                     <<"Access-Control-Allow-Origin", "*">>,
                     <<"Access-Control-Allow-Methods", "GET, POST, OPTIONS">>})]
    /\ UNCHANGED <<impl, environ, pool, uuidCount>>

\* lines 119-143: token_response["url"] raises KeyError when the token has no
\* url, and the handler at line 145 takes over
BackendRespond(w) ==
    /\ w \in pool
    /\ impl = "backend"
    /\ call[w].pc = "respond"
    /\ IF call[w].token.url = None
       THEN call' = [call EXCEPT ![w].pc = "except",
                        ![w].exc = [type |-> "KeyError", http |-> FALSE, status |-> None]]
       ELSE call' = [call EXCEPT
                ![w].pc = "done",
                ![w].result = HttpResponse(200, TRUE,
                    BackendResponseData(call[w], environ.INCLUDE_ACCESS_TOKEN),
                    {<<"Content-Type", "application/json">>,
                     <<"Access-Control-Allow-Origin", "*">>,
                     <<"Access-Control-Allow-Methods", "GET, POST, OPTIONS">>})]
    /\ UNCHANGED <<impl, environ, pool, uuidCount>>

\* lines 145-165: error_details is built, then the response is built with the
\* unbound `headers` (line 164), which raises NameError out of the handler
BackendExcept(w) ==
    /\ w \in pool
    /\ impl = "backend"
    /\ call[w].pc = "except"
    /\ call' = [call EXCEPT ![w].pc = "done", ![w].result = Raise("NameError")]
    /\ UNCHANGED <<impl, environ, pool, uuidCount>>

\* the host sends the result of main to the client and frees the worker
Return(w) ==
    /\ w \in pool
    /\ call[w].pc = "done"
    /\ call' = [call EXCEPT ![w] = NoCall]
    /\ UNCHANGED <<impl, environ, pool, uuidCount>>

BackendMain(w) ==
    \/ BackendMethod(w)
    \/ BackendRoom(w)
    \/ BackendUser(w)
    \/ BackendPermissions(w)
    \/ BackendConfig(w)
    \/ BackendToken(w)
    \/ BackendRespond(w)
    \/ BackendExcept(w)

(***************************************************************************)
(* back: src/back/negotiate/__init__.py                                    *)
(***************************************************************************)
BackHub == "default"

\* the dict {}
EmptyDict == <<>>

\* lines 14-21
Respond(body, status_code) ==
    HttpResponse(status_code, TRUE, body,
        {<<"Content-Type", "application/json">>,
         <<"Access-Control-Allow-Origin", "*">>,
         <<"Access-Control-Allow-Methods", "GET,POST,OPTIONS">>,
         <<"Access-Control-Allow-Headers", "Content-Type,Authorization">>})

\* lines 29-32: a body that get_json() cannot read counts as {}
BackBody(req) ==
    IF req.body.kind = "invalid"
    THEN [kind |-> "object", room_id |-> None, username |-> None, role |-> None]
    ELSE req.body

\* `req.params.get(k) or body.get(k)` reaches body.get only when the query
\* value is falsy; a body that is no dict has no get
BodyGetRaises(req, query) == ~Truthy(query) /\ BackBody(req).kind # "object"

\* lines 34-36, in the order the three lines run; the third holds once the
\* first two went through
BackParamsRaise(req) ==
    \/ BodyGetRaises(req, req.room_id)
    \/ BodyGetRaises(req, req.username)
    \/ BodyGetRaises(req, req.role)

BackRoomId(req) == Or(req.room_id, BackBody(req).room_id)
BackUsername(req) == Or(req.username, BackBody(req).username)
BackRole(req) == Lower(Or(Or(req.role, BackBody(req).role), ""))

\* lines 25-36
BackParams(w) ==
    /\ w \in pool
    /\ impl = "back"
    /\ call[w].pc = "start"
    /\ LET req == call[w].req IN
       IF req.method = "OPTIONS"
       THEN call' = [call EXCEPT ![w].pc = "done",
                        ![w].result = Respond(EmptyDict, 204)]
       ELSE IF BackParamsRaise(req)
       THEN call' = [call EXCEPT ![w].pc = "done",
                        ![w].result = Raise("AttributeError")]
       ELSE call' = [call EXCEPT ![w].pc = "validate",
                        ![w].room_id = BackRoomId(req),
                        ![w].user_id = BackUsername(req),
                        ![w].role = BackRole(req)]
    /\ UNCHANGED <<impl, environ, pool, uuidCount>>

\* BackInvalid without the test of line 38: nothing is rejected
BackInvalidNever(room_id, username, role) == FALSE

\* line 38
BackInvalid(room_id, username, role) ==
    ~Truthy(room_id) \/ ~Truthy(username) \/ role \notin {"writer", "reader"}

\* lines 38-39
BackValidate(w) ==
    /\ w \in pool
    /\ impl = "back"
    /\ call[w].pc = "validate"
    /\ IF BackInvalid(call[w].room_id, call[w].user_id, call[w].role)
       THEN call' = [call EXCEPT ![w].pc = "done",
                        ![w].result = Respond([error |-> "Missing or invalid parameters"], 400)]
       ELSE call' = [call EXCEPT ![w].pc = "config"]
    /\ UNCHANGED <<impl, environ, pool, uuidCount>>

\* BackConfig without the test of line 42: the call goes on to the provider
\* whatever the connection string is
BackConfigUnchecked(w) ==
    /\ w \in pool
    /\ impl = "back"
    /\ call[w].pc = "config"
    /\ call' = [call EXCEPT ![w].pc = "token"]
    /\ UNCHANGED <<impl, environ, pool, uuidCount>>

\* lines 41-68
BackConfig(w) ==
    /\ w \in pool
    /\ impl = "back"
    /\ call[w].pc = "config"
    /\ IF ~Truthy(environ.CONNECTION_STRING)
       THEN call' = [call EXCEPT ![w].pc = "done",
                        ![w].result = Respond(
                            [error |-> "Connection string not configured",
                             hint |-> "Set app setting WEB_PUBSUB_CONNECTION_STRING"], 500)]
       ELSE call' = [call EXCEPT ![w].pc = "token"]
    /\ UNCHANGED <<impl, environ, pool, uuidCount>>

\* lines 73-76
BackRoles(role) ==
    <<Perm("joinLeaveGroup")>>
    \o (IF role = "writer" THEN <<Perm("sendToGroup")>> ELSE <<>>)

\* lines 70-79
BackToken(w) ==
    /\ w \in pool
    /\ impl = "back"
    /\ call[w].pc = "token"
    /\ \E outcome \in ProviderOutcomes :
          IF outcome = "ctor_error"
          THEN call' = [call EXCEPT ![w].pc = "except", ![w].exc = ExcOf(outcome)]
          ELSE LET roles == BackRoles(call[w].role)
                   sent == Append(call[w].requests,
                               TokenRequest(call[w].user_id, roles,
                                            <<call[w].room_id>>, {}))
               IN IF Raises(outcome)
                  THEN call' = [call EXCEPT ![w].pc = "except",
                                            ![w].clientBuilt = TRUE,
                                            ![w].roles = roles,
                                            ![w].requests = sent,
                                            ![w].exc = ExcOf(outcome)]
                  ELSE call' = [call EXCEPT ![w].pc = "respond",
                                            ![w].clientBuilt = TRUE,
                                            ![w].roles = roles,
                                            ![w].requests = sent,
                                            ![w].token = TokenOf(outcome)]
    /\ UNCHANGED <<impl, environ, pool, uuidCount>>

\* lines 80-91
BackRespond(w) ==
    /\ w \in pool
    /\ impl = "back"
    /\ call[w].pc = "respond"
    /\ LET url == Or(call[w].token.url, call[w].token.baseUrl) IN
       IF ~Truthy(url)
       THEN call' = [call EXCEPT ![w].pc = "done",
                        ![w].result = Respond([error |-> "Failed to create access URL"], 500)]
       ELSE call' = [call EXCEPT ![w].pc = "done",
                        ![w].result = Respond([url |-> url], 200)]
    /\ UNCHANGED <<impl, environ, pool, uuidCount>>

\* BackExcept retrying the token request once instead of answering
BackExceptRetries(w) ==
    /\ w \in pool
    /\ impl = "back"
    /\ call[w].pc = "except"
    /\ IF Len(call[w].requests) = 1
       THEN call' = [call EXCEPT ![w].pc = "token"]
       ELSE call' = [call EXCEPT ![w].pc = "done",
                        ![w].result = Respond(
                            [error |-> "Negotiation failed",
                             details |-> call[w].exc.type], 500)]
    /\ UNCHANGED <<impl, environ, pool, uuidCount>>

\* lines 92-106
BackExcept(w) ==
    /\ w \in pool
    /\ impl = "back"
    /\ call[w].pc = "except"
    /\ IF call[w].exc.http
       THEN call' = [call EXCEPT ![w].pc = "done",
                        ![w].result = Respond(
                            [error |-> "Negotiation failed (HTTP)",
                             status |-> call[w].exc.status,
                             details |-> call[w].exc.type], 500)]
       ELSE call' = [call EXCEPT ![w].pc = "done",
                        ![w].result = Respond(
                            [error |-> "Negotiation failed",
                             details |-> call[w].exc.type], 500)]
    /\ UNCHANGED <<impl, environ, pool, uuidCount>>

BackMain(w) ==
    \/ BackParams(w)
    \/ BackValidate(w)
    \/ BackConfig(w)
    \/ BackToken(w)
    \/ BackRespond(w)
    \/ BackExcept(w)

(***************************************************************************)
(* flat: src/back/negotiate.py, statement by statement                     *)
(***************************************************************************)
\* a text/plain response without headers
TextResponse(text, status_code) == HttpResponse(status_code, FALSE, [text |-> text], {})

\* lines 8-13
FlatParams(w) ==
    /\ w \in pool
    /\ impl = "flat"
    /\ call[w].pc = "start"
    /\ LET req == call[w].req IN
       IF ~Truthy(req.room_id) \/ ~Truthy(req.username) \/ ~Truthy(req.role)
       THEN call' = [call EXCEPT ![w].pc = "done",
                        ![w].room_id = req.room_id, ![w].user_id = req.username,
                        ![w].role = req.role,
                        ![w].result = TextResponse("Missing parameters", 400)]
       ELSE call' = [call EXCEPT ![w].pc = "config",
                        ![w].room_id = req.room_id, ![w].user_id = req.username,
                        ![w].role = req.role]
    /\ UNCHANGED <<impl, environ, pool, uuidCount>>

\* lines 16-19
FlatConfig(w) ==
    /\ w \in pool
    /\ impl = "flat"
    /\ call[w].pc = "config"
    /\ IF ~Truthy(environ.CONNECTION_STRING)
       THEN call' = [call EXCEPT ![w].pc = "done",
                        ![w].result = TextResponse("Connection string not configured", 500)]
       ELSE call' = [call EXCEPT ![w].pc = "token"]
    /\ UNCHANGED <<impl, environ, pool, uuidCount>>

\* line 24
FlatRoles(role) ==
    IF role = "writer"
    THEN <<Perm("joinLeaveGroup"), Perm("sendToGroup")>>
    ELSE <<Perm("joinLeaveGroup")>>

\* lines 21-25: nothing catches what the provider raises
FlatToken(w) ==
    /\ w \in pool
    /\ impl = "flat"
    /\ call[w].pc = "token"
    /\ \E outcome \in ProviderOutcomes :
          IF outcome = "ctor_error"
          THEN call' = [call EXCEPT ![w].pc = "done", ![w].exc = ExcOf(outcome),
                                    ![w].result = Raise(ExcOf(outcome).type)]
          ELSE LET roles == FlatRoles(call[w].role)
                   sent == Append(call[w].requests,
                               TokenRequest(call[w].user_id, roles, <<>>, {}))
               IN IF Raises(outcome)
                  THEN call' = [call EXCEPT ![w].pc = "done",
                                            ![w].clientBuilt = TRUE,
                                            ![w].roles = roles,
                                            ![w].requests = sent,
                                            ![w].exc = ExcOf(outcome),
                                            ![w].result = Raise(ExcOf(outcome).type)]
                  ELSE call' = [call EXCEPT ![w].pc = "respond",
                                            ![w].clientBuilt = TRUE,
                                            ![w].roles = roles,
                                            ![w].requests = sent,
                                            ![w].token = TokenOf(outcome)]
    /\ UNCHANGED <<impl, environ, pool, uuidCount>>

\* line 27: token['url'] raises KeyError when the token has no url
FlatRespond(w) ==
    /\ w \in pool
    /\ impl = "flat"
    /\ call[w].pc = "respond"
    /\ IF call[w].token.url = None
       THEN call' = [call EXCEPT ![w].pc = "done", ![w].result = Raise("KeyError")]
       ELSE call' = [call EXCEPT ![w].pc = "done",
                        ![w].result = TextResponse(call[w].token.url, 200)]
    /\ UNCHANGED <<impl, environ, pool, uuidCount>>

FlatNegotiate(w) ==
    \/ FlatParams(w)
    \/ FlatConfig(w)
    \/ FlatToken(w)
    \/ FlatRespond(w)

(***************************************************************************)
(* Python string operations on the strings of the model                   *)
(***************************************************************************)
\* s.index(sub, start): the least position (from 1) at or after `from`
\* where sub occurs in s; 0 when sub does not occur
Index(s, sub, from) ==
    LET at == {i \in from..Len(s) :
                  /\ i + Len(sub) - 1 <= Len(s)
                  /\ SubSeq(s, i, i + Len(sub) - 1) = sub}
    IN IF at = {} THEN 0 ELSE CHOOSE i \in at : \A j \in at : i <= j

\* `sub in s`
Contains(s, sub) == Index(s, sub, 1) # 0

\* s[:n]
Prefix(s, n) == IF Len(s) <= n THEN s ELSE SubSeq(s, 1, n)

(***************************************************************************)
(* health: src/backend/health/__init__.py                                  *)
(* The report is modelled without its runtime, cors and azure_settings     *)
(* sections and its help text, which read no provider configuration.       *)
(***************************************************************************)
\* line 49
HealthHub(env) == Get(env.WEB_PUBSUB_HUB_NAME, "ViewerHub")

\* lines 33-45
ConnectionStringCheck(conn_str) ==
    IF Truthy(conn_str)
    THEN [status |-> "Set",
          length |-> Len(conn_str),
          starts_with |-> IF Len(conn_str) > 20
                          THEN Prefix(conn_str, 20) \o "..."
                          ELSE "[too short]"]
    ELSE [status |-> "Missing",
          error |-> "AZURE_WEB_PUBSUB_CONNECTION_STRING not found in environment"]

\* lines 62-64
HasEndpoint(conn_str) == Contains(conn_str, "Endpoint=")
HasAccessKey(conn_str) == Contains(conn_str, "AccessKey=")
HasVersion(conn_str) == Contains(conn_str, "Version=") \/ Contains(conn_str, "version=")

\* lines 69-71: the text between "Endpoint=" and the next ";"
Endpoint(conn_str) ==
    LET endpoint_start == Index(conn_str, "Endpoint=", 1) + 9
        semicolon == Index(conn_str, ";", endpoint_start)
        endpoint_end == IF semicolon # 0 THEN semicolon ELSE Len(conn_str) + 1
    IN SubSeq(conn_str, endpoint_start, endpoint_end - 1)

\* lines 66-94; the parse error of line 76 cannot happen once "Endpoint="
\* was found
FormatCheck(conn_str) ==
    [endpoint |-> IF HasEndpoint(conn_str)
                  THEN [status |-> "Found", value |-> Endpoint(conn_str)]
                  ELSE [status |-> "Missing"],
     access_key |-> IF HasAccessKey(conn_str) THEN "Found" ELSE "Missing",
     version |-> IF HasVersion(conn_str) THEN "Found" ELSE "Missing (optional)"]

\* lines 46, 84, 90: the errors of checks 1 and 2, in the order appended
ConfigErrors(conn_str) ==
    IF ~Truthy(conn_str)
    THEN <<"Missing AZURE_WEB_PUBSUB_CONNECTION_STRING">>
    ELSE (IF HasEndpoint(conn_str) THEN <<>>
          ELSE <<"Connection string missing Endpoint">>)
         \o (IF HasAccessKey(conn_str) THEN <<>>
             ELSE <<"Connection string missing AccessKey">>)

\* line 96
ConfigWarnings(conn_str) ==
    IF Truthy(conn_str) /\ ~HasVersion(conn_str)
    THEN <<"Connection string missing Version (will use default)">>
    ELSE <<>>

\* line 99
ServiceChecked(conn_str, hub_name) == Truthy(conn_str) /\ Truthy(hub_name)

\* str(e) of the provider's exceptions
ExcText(exc) ==
    IF exc.status # None THEN exc.type \o ": " \o exc.status ELSE exc.type

\* line 117: `test_token and "url" in test_token`
TokenHasUrl(token) == token.token # None /\ token.url # None

\* lines 117-142; the service_name of line 126 is left out, and of the
\* hints only the first, the one the model's exception texts can meet
ServiceCheck(hub_name, token, exc) ==
    IF exc.type # None
    THEN IF Contains(ExcText(exc), "401") \/ Contains(ExcText(exc), "unauthorized")
         THEN [status |-> "Connection failed", error |-> ExcText(exc),
               hint |-> "Check if AccessKey is correct"]
         ELSE [status |-> "Connection failed", error |-> ExcText(exc)]
    ELSE IF TokenHasUrl(token)
         THEN [status |-> "Connected", hub |-> hub_name,
               test_token_generated |-> TRUE]
         ELSE [status |-> "Connected but token generation issue"]

\* lines 129 and 134
ServiceErrors(token, exc) ==
    IF exc.type # None
    THEN <<"Service connection failed: " \o ExcText(exc)>>
    ELSE <<>>

ServiceWarnings(token, exc) ==
    IF exc.type = None /\ ~TokenHasUrl(token)
    THEN <<"Service connected but token generation returned unexpected format">>
    ELSE <<>>

\* lines 14-20 and 169-186: the report for a connection string, a hub
\* setting and the outcome of the service check
HealthReport(conn_str, hub_name, token, exc) ==
    LET checked == ServiceChecked(conn_str, hub_name)
        errors == ConfigErrors(conn_str)
                  \o (IF checked THEN ServiceErrors(token, exc) ELSE <<>>)
        warnings == ConfigWarnings(conn_str)
                    \o (IF checked THEN ServiceWarnings(token, exc) ELSE <<>>)
    IN [status |-> IF errors # <<>> THEN "Unhealthy"
                   ELSE IF warnings # <<>> THEN "Degraded"
                   ELSE "Healthy",
        connection_string |-> ConnectionStringCheck(conn_str),
        hub_name |-> [value |-> hub_name, is_default |-> hub_name = "ViewerHub"],
        connection_string_format |->
            IF Truthy(conn_str) THEN FormatCheck(conn_str) ELSE None,
        service_connection |->
            IF checked THEN ServiceCheck(hub_name, token, exc) ELSE None,
        errors |-> errors,
        warnings |-> warnings,
        \* line 182: every error text of this function holds "connection"
        summary |-> [can_connect |-> errors = <<>>,
                     is_configured |-> errors = <<>>,
                     total_errors |-> Len(errors),
                     total_warnings |-> Len(warnings)]]

\* lines 23-27
HealthHeaders ==
    {<<"Content-Type", "application/json">>,
     <<"Access-Control-Allow-Origin", "*">>,
     <<"Access-Control-Allow-Methods", "GET, OPTIONS">>}

\* lines 12-27.  Line 16 reads func.datetime, an attribute of the
\* azure.functions package, which is not part of the repository: the read
\* either gives the datetime class or raises AttributeError.
HealthStart(w) ==
    /\ w \in pool
    /\ impl = "health"
    /\ call[w].pc = "start"
    /\ \E hasDatetime \in BOOLEAN :
          IF hasDatetime
          THEN call' = [call EXCEPT ![w].pc = "service"]
          ELSE call' = [call EXCEPT ![w].pc = "done",
                                    ![w].result = Raise("AttributeError")]
    /\ UNCHANGED <<impl, environ, pool, uuidCount>>

\* lines 98-115 and 131: from_connection_string, then get_client_access_token
HealthService(w) ==
    /\ w \in pool
    /\ impl = "health"
    /\ call[w].pc = "service"
    /\ IF ServiceChecked(environ.CONNECTION_STRING, HealthHub(environ))
       THEN \E outcome \in ProviderOutcomes :
              IF outcome = "ctor_error"
              THEN call' = [call EXCEPT ![w].pc = "report",
                                        ![w].exc = ExcOf(outcome)]
              ELSE LET sent == Append(call[w].requests,
                                 TokenRequest("health_check_user",
                                     <<PermFor("joinLeaveGroup", "health_check")>>,
                                     <<>>, {1}))
                   IN IF Raises(outcome)
                      THEN call' = [call EXCEPT ![w].pc = "report",
                                                ![w].clientBuilt = TRUE,
                                                ![w].requests = sent,
                                                ![w].exc = ExcOf(outcome)]
                      ELSE call' = [call EXCEPT ![w].pc = "report",
                                                ![w].clientBuilt = TRUE,
                                                ![w].requests = sent,
                                                ![w].token = TokenOf(outcome)]
       ELSE call' = [call EXCEPT ![w].pc = "report"]
    /\ UNCHANGED <<impl, environ, pool, uuidCount>>

\* lines 169-178 and 198-202
HealthResponse(conn_str, hub_name, token, exc) ==
    LET report == HealthReport(conn_str, hub_name, token, exc)
        overall_status == IF report.errors # <<>> THEN 503 ELSE 200
    IN HttpResponse(overall_status, TRUE, report, HealthHeaders)

\* lines 144-202
HealthRespond(w) ==
    /\ w \in pool
    /\ impl = "health"
    /\ call[w].pc = "report"
    /\ call' = [call EXCEPT
          ![w].pc = "done",
          ![w].result = HealthResponse(environ.CONNECTION_STRING,
                            HealthHub(environ), call[w].token, call[w].exc)]
    /\ UNCHANGED <<impl, environ, pool, uuidCount>>

HealthMain(w) ==
    \/ HealthStart(w)
    \/ HealthService(w)
    \/ HealthRespond(w)

(***************************************************************************)
(* healthz: src/backend/healthz/__init__.py                                *)
(* The report is modelled without its runtime_diagnostics section.         *)
(***************************************************************************)
\* line 36
HealthzHub(env) == Get(env.WEB_PUBSUB_HUB_NAME, "Not Set")

\* lines 38-57
HealthzReport(conn_str, hub_name) ==
    [status |-> IF Truthy(conn_str)
                THEN "Healthy (Found Connection String)"
                ELSE "Unhealthy (Missing Connection String)",
     connection_string |->
        IF Truthy(conn_str)
        THEN [connection_string_found |-> TRUE,
              connection_string_length |-> Len(conn_str),
              connection_string_preview |-> Prefix(conn_str, 20) \o "..."]
        ELSE [connection_string_found |-> FALSE],
     hub |->
        IF hub_name # "Not Set"
        THEN [hub_name_found |-> TRUE, hub_name |-> hub_name]
        ELSE [hub_name_found |-> FALSE]]

\* lines 13-16 and 59-63
HealthzResponse(conn_str, hub_name) ==
    HttpResponse(200, TRUE, HealthzReport(conn_str, hub_name),
                 {<<"Content-Type", "application/json">>,
                  <<"Access-Control-Allow-Origin", "*">>})

\* lines 11-63
HealthzMain(w) ==
    /\ w \in pool
    /\ impl = "healthz"
    /\ call[w].pc = "start"
    /\ call' = [call EXCEPT
          ![w].pc = "done",
          ![w].result = HealthzResponse(environ.CONNECTION_STRING,
                                        HealthzHub(environ))]
    /\ UNCHANGED <<impl, environ, pool, uuidCount>>

(***************************************************************************)
(* send-message: src/examples/send-message/__init__.py                     *)
(* call[w].signalRMessages holds what the call has set on its output       *)
(* binding, one entry per set().                                           *)
(***************************************************************************)
\* line 15
MessageText(req_body) == Get(req_body.message, "Hello from Azure Functions!")

\* lines 25-36; now is the timestamp of line 30
SignalRMessage(message_text, user_id, now) ==
    LET arguments == <<[type |-> "user-message", message |-> message_text,
                        timestamp |-> now]>>
    IN IF Truthy(user_id)
       THEN [target |-> "newMessage", arguments |-> arguments, userId |-> user_id]
       ELSE [target |-> "newMessage", arguments |-> arguments]

\* lines 12-22: get_json() raises ValueError on a body that is no JSON; a
\* JSON body that is no object has no get, and AttributeError is not caught
SendMessageParse(w) ==
    /\ w \in pool
    /\ impl = "send-message"
    /\ call[w].pc = "start"
    /\ LET req_body == call[w].req.body IN
       CASE req_body.kind = "invalid" ->
              call' = [call EXCEPT ![w].pc = "done",
                         ![w].result = TextResponse("Invalid JSON in request body", 400)]
         [] req_body.kind = "list" ->
              call' = [call EXCEPT ![w].pc = "done",
                         ![w].result = Raise("AttributeError")]
         [] OTHER ->
              call' = [call EXCEPT ![w].pc = "message",
                         ![w].user_id = req_body.userId]
    /\ UNCHANGED <<impl, environ, pool, uuidCount>>

\* lines 24-54.  Line 30 reads func.datetime, as line 16 of health does:
\* the read gives the datetime class or raises AttributeError.
SendMessageSend(w) ==
    /\ w \in pool
    /\ impl = "send-message"
    /\ call[w].pc = "message"
    /\ \E hasDatetime \in BOOLEAN :
          IF ~hasDatetime
          THEN call' = [call EXCEPT ![w].pc = "done",
                                    ![w].result = Raise("AttributeError")]
          ELSE LET message_text == MessageText(call[w].req.body)
                   message == SignalRMessage(message_text, call[w].user_id, "<now>")
               IN call' = [call EXCEPT
                     ![w].pc = "done",
                     ![w].signalRMessages = Append(@, message),
                     ![w].result = HttpResponse(200, TRUE,
                         [status |-> "Message sent", message |-> message_text,
                          userId |-> call[w].user_id],
                         {<<"Content-Type", "application/json">>})]
    /\ UNCHANGED <<impl, environ, pool, uuidCount>>

SendMessageMain(w) ==
    \/ SendMessageParse(w)
    \/ SendMessageSend(w)

(***************************************************************************)
(* test_webpubsub: src/test_webpubsub.py, one run of main: test_negotiate  *)
(* and then test_client_connection.  The gateway and the Web PubSub        *)
(* client library are outside the script: what they answer, and whether a  *)
(* library call raises, is their choice.  A KeyboardInterrupt may arrive   *)
(* at any point of the try block.                                          *)
(***************************************************************************)
\* lines 41-92 and 293-303: the gateway is asked for self.room_id; without a
\* valid 200 answer main returns before any client is built
WpsNegotiate(w) ==
    /\ w \in pool
    /\ impl = "test_webpubsub"
    /\ call[w].pc = "start"
    /\ \E answered \in BOOLEAN :
          IF answered
          THEN call' = [call EXCEPT ![w].pc = "build",
                           ![w].client.negotiated = call[w].req.room_id]
          ELSE call' = [call EXCEPT ![w].pc = "done",
                           ![w].result = [kind |-> "return"]]
    /\ UNCHANGED <<impl, environ, pool, uuidCount>>

\* lines 131-167: the import may fail; the client is created and the
\* handlers are registered
WpsBuild(w) ==
    /\ w \in pool
    /\ impl = "test_webpubsub"
    /\ call[w].pc = "build"
    /\ \E installed \in BOOLEAN :
          IF installed
          THEN call' = [call EXCEPT ![w].pc = "open", ![w].client.built = TRUE]
          ELSE call' = [call EXCEPT ![w].pc = "done",
                           ![w].result = [kind |-> "return"]]
    /\ UNCHANGED <<impl, environ, pool, uuidCount>>

\* lines 169-173: await client.open()
WpsOpen(w) ==
    /\ w \in pool
    /\ impl = "test_webpubsub"
    /\ call[w].pc = "open"
    /\ \E raised \in BOOLEAN :
          call' = [call EXCEPT ![w].pc = IF raised THEN "except" ELSE "wait",
                               ![w].client.opened = TRUE]
    /\ UNCHANGED <<impl, environ, pool, uuidCount>>

\* WpsWait returning on the timeout of line 183 outside any try/finally
WpsWaitReturns(w) ==
    /\ w \in pool
    /\ impl = "test_webpubsub"
    /\ call[w].pc = "wait"
    /\ \E connected \in BOOLEAN :
          IF connected
          THEN call' = [call EXCEPT ![w].pc = "join",
                                    ![w].client.connected = TRUE]
          ELSE call' = [call EXCEPT ![w].pc = "done",
                                    ![w].result = [kind |-> "return"]]
    /\ UNCHANGED <<impl, environ, pool, uuidCount>>

\* lines 175-183: on_connected runs within the five seconds, or the wait
\* times out and the function returns through finally
WpsWait(w) ==
    /\ w \in pool
    /\ impl = "test_webpubsub"
    /\ call[w].pc = "wait"
    /\ \E connected \in BOOLEAN :
          IF connected
          THEN call' = [call EXCEPT ![w].pc = "join",
                                    ![w].client.connected = TRUE]
          ELSE call' = [call EXCEPT ![w].pc = "finally"]
    /\ UNCHANGED <<impl, environ, pool, uuidCount>>

\* WpsJoin without the join_group of line 187
WpsJoinSkipped(w) ==
    /\ w \in pool
    /\ impl = "test_webpubsub"
    /\ call[w].pc = "join"
    /\ call' = [call EXCEPT ![w].pc = "send_join"]
    /\ UNCHANGED <<impl, environ, pool, uuidCount>>

\* lines 185-187: await client.join_group(self.room_id)
WpsJoin(w) ==
    /\ w \in pool
    /\ impl = "test_webpubsub"
    /\ call[w].pc = "join"
    /\ \E raised \in BOOLEAN :
          IF raised
          THEN call' = [call EXCEPT ![w].pc = "except"]
          ELSE call' = [call EXCEPT ![w].pc = "send_join",
                           ![w].client.joined = @ \cup {call[w].req.room_id}]
    /\ UNCHANGED <<impl, environ, pool, uuidCount>>

\* one send_to_group(self.room_id, data, JSON)
GroupMessage(group, type) == [group |-> group, type |-> type]

\* lines 192-197: the join announcement
WpsSendJoin(w) ==
    /\ w \in pool
    /\ impl = "test_webpubsub"
    /\ call[w].pc = "send_join"
    /\ \E raised \in BOOLEAN :
          IF raised
          THEN call' = [call EXCEPT ![w].pc = "except"]
          ELSE call' = [call EXCEPT ![w].pc = "send_test",
                           ![w].client.sent =
                               Append(@, GroupMessage(call[w].req.room_id, "join"))]
    /\ UNCHANGED <<impl, environ, pool, uuidCount>>

\* lines 199-204: the test message
WpsSendTest(w) ==
    /\ w \in pool
    /\ impl = "test_webpubsub"
    /\ call[w].pc = "send_test"
    /\ \E raised \in BOOLEAN :
          IF raised
          THEN call' = [call EXCEPT ![w].pc = "except"]
          ELSE call' = [call EXCEPT ![w].pc = "listen",
                           ![w].client.sent =
                               Append(@, GroupMessage(call[w].req.room_id, "test"))]
    /\ UNCHANGED <<impl, environ, pool, uuidCount>>

\* lines 206-210
WpsListen(w) ==
    /\ w \in pool
    /\ impl = "test_webpubsub"
    /\ call[w].pc = "listen"
    /\ call' = [call EXCEPT ![w].pc = "finally"]
    /\ UNCHANGED <<impl, environ, pool, uuidCount>>

\* a KeyboardInterrupt inside the try block of lines 169-210: `except
\* Exception` does not catch it, finally runs and it leaves the function
WpsInterrupt(w) ==
    /\ w \in pool
    /\ impl = "test_webpubsub"
    /\ call[w].pc \in {"open", "wait", "join", "send_join", "send_test", "listen"}
    /\ call' = [call EXCEPT ![w].pc = "finally",
                            ![w].exc = [type |-> "KeyboardInterrupt",
                                        http |-> FALSE, status |-> None]]
    /\ UNCHANGED <<impl, environ, pool, uuidCount>>

\* lines 212-213
WpsExcept(w) ==
    /\ w \in pool
    /\ impl = "test_webpubsub"
    /\ call[w].pc = "except"
    /\ call' = [call EXCEPT ![w].pc = "finally"]
    /\ UNCHANGED <<impl, environ, pool, uuidCount>>

\* lines 214-216: await client.close(), then the function returns or the
\* pending KeyboardInterrupt goes on
WpsClose(w) ==
    /\ w \in pool
    /\ impl = "test_webpubsub"
    /\ call[w].pc = "finally"
    /\ call' = [call EXCEPT
          ![w].pc = "done",
          ![w].client.closed = TRUE,
          ![w].result = IF call[w].exc.type = "KeyboardInterrupt"
                        THEN Raise("KeyboardInterrupt")
                        ELSE [kind |-> "return"]]
    /\ UNCHANGED <<impl, environ, pool, uuidCount>>

WpsMain(w) ==
    \/ WpsNegotiate(w)
    \/ WpsBuild(w)
    \/ WpsOpen(w)
    \/ WpsWait(w)
    \/ WpsJoin(w)
    \/ WpsSendJoin(w)
    \/ WpsSendTest(w)
    \/ WpsListen(w)
    \/ WpsInterrupt(w)
    \/ WpsExcept(w)
    \/ WpsClose(w)

(***************************************************************************)
(* test_signalr: src/test_signalr.py, one run of main: test_negotiate and  *)
(* then test_client_connection, with the same conventions as above.        *)
(***************************************************************************)
\* lines 35-66 and 316-327
SigNegotiate(w) ==
    /\ w \in pool
    /\ impl = "test_signalr"
    /\ call[w].pc = "start"
    /\ \E answered \in BOOLEAN :
          IF answered
          THEN call' = [call EXCEPT ![w].pc = "build"]
          ELSE call' = [call EXCEPT ![w].pc = "done",
                           ![w].result = [kind |-> "return"]]
    /\ UNCHANGED <<impl, environ, pool, uuidCount>>

\* lines 149-211: the import may fail; the hub connection is built and the
\* handlers are registered
SigBuild(w) ==
    /\ w \in pool
    /\ impl = "test_signalr"
    /\ call[w].pc = "build"
    /\ \E installed \in BOOLEAN :
          IF installed
          THEN call' = [call EXCEPT ![w].pc = "open", ![w].client.built = TRUE]
          ELSE call' = [call EXCEPT ![w].pc = "done",
                           ![w].result = [kind |-> "return"]]
    /\ UNCHANGED <<impl, environ, pool, uuidCount>>

\* lines 213-215: hub_connection.start()
SigStart(w) ==
    /\ w \in pool
    /\ impl = "test_signalr"
    /\ call[w].pc = "open"
    /\ \E raised \in BOOLEAN :
          call' = [call EXCEPT
             ![w].pc = IF raised THEN "except" ELSE "wait",
             ![w].exc = IF raised
                        THEN [type |-> "Exception", http |-> FALSE, status |-> None]
                        ELSE @,
             ![w].client.opened = TRUE]
    /\ UNCHANGED <<impl, environ, pool, uuidCount>>

\* lines 217-228: on_open runs within the ten seconds, or the wait times
\* out and the function returns through finally
SigWait(w) ==
    /\ w \in pool
    /\ impl = "test_signalr"
    /\ call[w].pc = "wait"
    /\ \E connected \in BOOLEAN :
          IF connected
          THEN call' = [call EXCEPT ![w].pc = "listen",
                                    ![w].client.connected = TRUE]
          ELSE call' = [call EXCEPT ![w].pc = "finally"]
    /\ UNCHANGED <<impl, environ, pool, uuidCount>>

\* lines 213-238: a KeyboardInterrupt inside the try block; the loop of
\* lines 237-238 ends in no other way
SigInterrupt(w) ==
    /\ w \in pool
    /\ impl = "test_signalr"
    /\ call[w].pc \in {"open", "wait", "listen"}
    /\ call' = [call EXCEPT ![w].pc = "except",
                            ![w].exc = [type |-> "KeyboardInterrupt",
                                        http |-> FALSE, status |-> None]]
    /\ UNCHANGED <<impl, environ, pool, uuidCount>>

\* lines 240-247: both handlers only log
SigExcept(w) ==
    /\ w \in pool
    /\ impl = "test_signalr"
    /\ call[w].pc = "except"
    /\ call' = [call EXCEPT ![w].pc = "finally"]
    /\ UNCHANGED <<impl, environ, pool, uuidCount>>

\* lines 248-250: hub_connection.stop(), then the function returns
SigStop(w) ==
    /\ w \in pool
    /\ impl = "test_signalr"
    /\ call[w].pc = "finally"
    /\ call' = [call EXCEPT ![w].pc = "done",
                            ![w].client.closed = TRUE,
                            ![w].result = [kind |-> "return"]]
    /\ UNCHANGED <<impl, environ, pool, uuidCount>>

SigMain(w) ==
    \/ SigNegotiate(w)
    \/ SigBuild(w)
    \/ SigStart(w)
    \/ SigWait(w)
    \/ SigInterrupt(w)
    \/ SigExcept(w)
    \/ SigStop(w)

Next ==
    \E w \in Workers :
        \/ Receive(w)
        \/ BackendMain(w)
        \/ BackMain(w)
        \/ FlatNegotiate(w)
        \/ HealthMain(w)
        \/ HealthzMain(w)
        \/ SendMessageMain(w)
        \/ WpsMain(w)
        \/ SigMain(w)
        \/ Return(w)

Spec == Init /\ [][Next]_vars


(***************************************************************************)
(* What a request asks for, and what a call has done so far                *)
(***************************************************************************)
\* the value a request supplies for a parameter: in the query string, else
\* in the JSON body
RoomInput(req) == Or(req.room_id, req.body.room_id)
UserInput(req) == Or(Or(req.username, req.user_id), req.body.username)
RoleInput(req) == Or(req.role, req.body.role)

Running(w) == call[w].pc # "idle"
Done(w) == call[w].pc = "done"
IsResponse(w) == call[w].result.kind = "response"
Status(w) == call[w].result.status
IsJsonError(w) ==
    /\ IsResponse(w)
    /\ call[w].result.json
    /\ "error" \in DOMAIN call[w].result.body

\* every permission string the call has handed to the provider or returned
\* to the client
GrantsIssued(w) ==
    UNION {Range(call[w].requests[i].roles) : i \in DOMAIN call[w].requests}
    \cup (IF IsResponse(w) /\ call[w].result.json
             /\ "roles" \in DOMAIN call[w].result.body
          THEN Range(call[w].result.body.roles) ELSE {})

\* the permission list a variant computes for a role and a room
RolesOf(variant, role, room_id) ==
    CASE variant = "backend" -> BackendRoles(BackendRole(role), room_id)
      [] variant = "back" -> BackRoles(Lower(role))
      [] OTHER -> FlatRoles(role)

\* a GET or POST whose JSON body, if any, is an object
PlainRequest(req) == req.method \in {"GET", "POST"} /\ req.body.kind # "list"

(***************************************************************************)
(* C1: a call whose role is reader (in any letter case) never hands the    *)
(* provider, nor returns to the client, a sendToGroup permission, scoped   *)
(* or unscoped.                                                            *)
(***************************************************************************)
C1_ReaderNeverSends ==
    \A w \in Workers :
        (impl \in {"backend", "back"} /\ Running(w)
         /\ Lower(RoleInput(call[w].req)) = "reader")
        => \A p \in GrantsIssued(w) : Capability(p) # "sendToGroup"

(***************************************************************************)
(* C2: every permission a call issues is scoped to exactly the requested   *)
(* room; none is unscoped, none names another room.                        *)
(***************************************************************************)
C2_EveryGrantScopedToRoom ==
    \A w \in Workers :
        (impl \in {"backend", "back"} /\ Running(w))
        => \A p \in GrantsIssued(w) : Scope(p) = RoomInput(call[w].req)

(***************************************************************************)
(* C3: a writer call for room R that reaches the provider passes a         *)
(* joinLeaveGroup permission scoped to R and a sendToGroup permission      *)
(* scoped to R.                                                            *)
(***************************************************************************)
C3_WriterGrantsScopedToRoom ==
    \A w \in Workers :
        (impl \in {"backend", "back"} /\ Running(w)
         /\ Lower(RoleInput(call[w].req)) = "writer")
        => \A i \in DOMAIN call[w].requests :
              LET R == RoomInput(call[w].req)
                  granted == Range(call[w].requests[i].roles)
              IN /\ PermFor("joinLeaveGroup", R) \in granted
                 /\ PermFor("sendToGroup", R) \in granted

(***************************************************************************)
(* C4: for the room R of a call, the permissions computed for reader are a *)
(* strict subset of those computed for writer, those for admin (where the  *)
(* variant accepts admin) include writer's, and no permission of these     *)
(* sets has a scope other than R.                                          *)
(***************************************************************************)
C4_RoleMonotonicity ==
    \A w \in Workers :
        (impl \in {"backend", "back"} /\ Running(w) /\ Truthy(call[w].room_id))
        => LET R == call[w].room_id
               reader == Range(RolesOf(impl, "reader", R))
               writer == Range(RolesOf(impl, "writer", R))
               admin == IF impl = "backend"
                        THEN Range(RolesOf(impl, "admin", R)) ELSE writer
           IN /\ reader \subseteq writer
              /\ reader # writer
              /\ writer \subseteq admin
              /\ \A p \in reader \cup writer \cup admin : Scope(p) = R

(***************************************************************************)
(* C5: a request that supplies a role which, case-folded, is none of       *)
(* writer, reader, admin is answered 400 with an error; it is never        *)
(* treated as reader and never reaches the provider.                       *)
(***************************************************************************)
C5_UnknownRoleRejected ==
    \A w \in Workers :
        (impl \in {"backend", "back"} /\ Running(w)
         /\ PlainRequest(call[w].req)
         /\ Truthy(Strip(RoomInput(call[w].req)))
         /\ Truthy(Strip(UserInput(call[w].req)))
         /\ Truthy(RoleInput(call[w].req))
         /\ Lower(RoleInput(call[w].req)) \notin {"writer", "reader", "admin"})
        => /\ call[w].role # "reader"
           /\ call[w].requests = <<>>
           /\ Done(w) => (IsJsonError(w) /\ Status(w) = 400)

(***************************************************************************)
(* C6: a request whose room_id is absent, empty or blank is answered 400   *)
(* with an error, whatever its other parameters, and never reaches the     *)
(* provider.                                                               *)
(***************************************************************************)
C6_MissingRoomRejected ==
    \A w \in Workers :
        (impl \in {"backend", "back"} /\ Running(w)
         /\ PlainRequest(call[w].req)
         /\ ~Truthy(Strip(RoomInput(call[w].req))))
        => /\ call[w].requests = <<>>
           /\ Done(w) => (IsJsonError(w) /\ Status(w) = 400)

(***************************************************************************)
(* C7: with the connection string absent, every GET or POST, valid or      *)
(* not, is answered 500 with a JSON error.                                 *)
(***************************************************************************)
C7_UnconfiguredAlways500 ==
    \A w \in Workers :
        (impl \in {"backend", "back"} /\ Done(w)
         /\ PlainRequest(call[w].req)
         /\ ~Truthy(environ.CONNECTION_STRING))
        => (IsJsonError(w) /\ Status(w) = 500)

\* the provider did not hand back a usable token
ProviderFailed(w) ==
    \/ call[w].exc.type # None
    \/ call[w].requests # <<>> /\ call[w].token.url = None

(***************************************************************************)
(* C8: a configured call with a valid room and role and no username ends   *)
(* 200 (unless the provider failed) with a generated, non-empty identity   *)
(* that is the user_id passed to the provider and the userId returned.     *)
(***************************************************************************)
C8_GeneratedIdentity ==
    \A w \in Workers :
        (impl \in {"backend", "back"} /\ Done(w)
         /\ PlainRequest(call[w].req)
         /\ Truthy(environ.CONNECTION_STRING)
         /\ Truthy(Strip(RoomInput(call[w].req)))
         /\ Lower(RoleInput(call[w].req)) \in {"writer", "reader"}
         /\ UserInput(call[w].req) = None
         /\ ~ProviderFailed(w))
        => /\ IsResponse(w) /\ Status(w) = 200
           /\ call[w].generated
           /\ Truthy(call[w].user_id)
           /\ \A i \in DOMAIN call[w].requests :
                 call[w].requests[i].user_id = call[w].user_id
           /\ "userId" \in DOMAIN call[w].result.body
           /\ call[w].result.body.userId = call[w].user_id

(***************************************************************************)
(* C9: a call whose role is absent, empty or anything but writer or admin  *)
(* (case-folded) is issued no permission beyond those the variant issues   *)
(* to role reader for the same room.                                       *)
(***************************************************************************)
C9_UnknownRoleNotUpgraded ==
    \A w \in Workers :
        (impl \in Negotiators /\ Running(w)
         /\ Lower(RoleInput(call[w].req)) \notin {"writer", "admin"})
        => GrantsIssued(w) \subseteq Range(RolesOf(impl, "reader", call[w].room_id))

\* a call with an unrecognized role was issued a credential
C9_Witness ==
    \E w \in Workers :
        /\ impl = "backend"
        /\ RoleInput(call[w].req) = "owner"
        /\ call[w].requests # <<>>
        /\ IsResponse(w) /\ Status(w) = 200

(***************************************************************************)
(* C10: whatever the provider does, a call that reached it ends with an    *)
(* HTTP response; no exception leaves main, and an exception raised by the *)
(* provider is answered with a 500 JSON error.                             *)
(***************************************************************************)
C10_ProviderFailureBecomesResponse ==
    \A w \in Workers :
        (impl \in {"backend", "back"} /\ Done(w)
         /\ (call[w].requests # <<>> \/ call[w].exc.type # None))
        => /\ IsResponse(w)
           /\ call[w].exc.type # None => (IsJsonError(w) /\ Status(w) >= 500)

(***************************************************************************)
(* C11: a call the provider refuses with HTTP status 401 or 403 is         *)
(* answered with status 401 or 403; every other failure the provider       *)
(* raises is answered 500.                                                 *)
(***************************************************************************)
C11_UnauthorizedKeepsStatus ==
    \A w \in Workers :
        (impl \in {"backend", "back"} /\ Done(w) /\ PlainRequest(call[w].req))
        => /\ (call[w].exc.http /\ call[w].exc.status \in {"401", "403"})
                => (IsResponse(w) /\ Status(w) \in {401, 403})
           /\ (call[w].exc.type # None /\ ~call[w].exc.http)
                => (IsResponse(w) /\ Status(w) = 500)

(***************************************************************************)
(* C12: every response with a status of 400 or above has a JSON object     *)
(* body with an error field.                                               *)
(***************************************************************************)
C12_ErrorResponsesAreJson ==
    \A w \in Workers :
        (impl \in {"backend", "back", "flat"} /\ Done(w) /\ IsResponse(w)
         /\ Status(w) >= 400)
        => IsJsonError(w)

\* the cross-origin headers of a response
AllowsAnyOrigin(headers) == <<"Access-Control-Allow-Origin", "*">> \in headers
NamesHeader(headers, name) == \E h \in headers : h[1] = name
HasCors(headers) ==
    /\ AllowsAnyOrigin(headers)
    /\ NamesHeader(headers, "Access-Control-Allow-Methods")
    /\ NamesHeader(headers, "Access-Control-Allow-Headers")

(***************************************************************************)
(* C13: an OPTIONS request is answered with an empty success response that *)
(* carries the cross-origin headers, before any parameter is validated,    *)
(* the configuration read or the provider called.                          *)
(***************************************************************************)
C13_OptionsShortCircuits ==
    \A w \in Workers :
        (impl \in {"backend", "back"} /\ Running(w)
         /\ call[w].req.method = "OPTIONS")
        => /\ call[w].requests = <<>>
           /\ ~call[w].clientBuilt
           /\ Done(w) => /\ IsResponse(w)
                         /\ Status(w) \in 200..299
                         /\ DOMAIN call[w].result.body = {}
                         /\ HasCors(call[w].result.headers)

(***************************************************************************)
(* C14: every response, on every path, carries                             *)
(* Access-Control-Allow-Origin: * with allowed methods and allowed         *)
(* headers.                                                                *)
(***************************************************************************)
C14_EveryResponseHasCors ==
    \A w \in Workers :
        (impl \in {"backend", "back"} /\ Done(w) /\ IsResponse(w))
        => HasCors(call[w].result.headers)

\* the call has read its three parameters and gone on
ParamsRead(w) == call[w].pc \in {"config", "token", "respond", "except"}

(***************************************************************************)
(* C15: for each of room_id, username and role, a value in the query       *)
(* string is the one used, also when the JSON body supplies one, and a     *)
(* value only the JSON body supplies is the one used.                      *)
(***************************************************************************)
C15_QueryThenBody ==
    \A w \in Workers :
        (impl \in {"backend", "back"} /\ ParamsRead(w)
         /\ call[w].req.body.kind = "object" /\ call[w].req.user_id = None)
        => LET req == call[w].req IN
           /\ Truthy(req.room_id) => call[w].room_id = req.room_id
           /\ (req.room_id = None /\ req.body.room_id # None)
                => call[w].room_id = req.body.room_id
           /\ Truthy(req.username) => call[w].user_id = req.username
           /\ (req.username = None /\ req.body.username # None)
                => call[w].user_id = req.body.username
           /\ Lower(req.role) \in {"writer", "reader"}
                => call[w].role = Lower(req.role)
           /\ (req.role = None /\ req.body.role # None)
                => call[w].role = Lower(req.body.role)

\* the provider returned a token that holds neither url nor baseUrl
TokenWithoutUrl(w) ==
    /\ call[w].token.token # None
    /\ call[w].token.url = None
    /\ call[w].token.baseUrl = None

(***************************************************************************)
(* C16: every 200 response has a JSON body with a non-empty url, and a     *)
(* call whose token carries no url ends with a 500 response.               *)
(***************************************************************************)
C16_SuccessHasUrl ==
    \A w \in Workers :
        (impl \in {"backend", "back"} /\ Done(w))
        => /\ (IsResponse(w) /\ Status(w) = 200)
                => /\ call[w].result.json
                   /\ "url" \in DOMAIN call[w].result.body
                   /\ Truthy(call[w].result.body.url)
           /\ TokenWithoutUrl(w) => (IsResponse(w) /\ Status(w) = 500)

(***************************************************************************)
(* C19: a request with a valid room and role whose username is supplied    *)
(* but empty or blank is answered 400 with an error; it is given no        *)
(* generated identity and never reaches the provider.                      *)
(***************************************************************************)
C19_EmptyUsernameRejected ==
    \A w \in Workers :
        (impl \in {"backend", "back"} /\ Running(w)
         /\ PlainRequest(call[w].req)
         /\ call[w].req.room_id \in {"r1", "r2"}
         /\ call[w].req.role \in {"reader", "writer"}
         /\ call[w].req.username \in {"", " "}
         /\ call[w].req.body.username = None)
        => /\ ~call[w].generated
           /\ call[w].requests = <<>>
           /\ Done(w) => (IsJsonError(w) /\ Status(w) = 400)

(***************************************************************************)
(* C17: every token request carries minutes_to_expire = 60, and every 200  *)
(* response returns expiresIn = 3600, the same expiry in seconds.          *)
(***************************************************************************)
C17_SixtyMinuteExpiry ==
    \A w \in Workers :
        (impl \in {"backend", "back"} /\ Running(w))
        => /\ \A i \in 1..Len(call[w].requests) :
                 call[w].requests[i].minutes_to_expire = {60}
           /\ (Done(w) /\ IsResponse(w) /\ Status(w) = 200)
                => /\ "expiresIn" \in DOMAIN call[w].result.body
                   /\ call[w].result.body.expiresIn = 60 * 60

\* the provider call of the health probe raised
ProbeFailed(w) == call[w].exc.type # None

(***************************************************************************)
(* C20: a finished health probe with a missing connection string or a      *)
(* failed provider call has answered 503 with an Unhealthy report, not      *)
(* raised; a 200 answer means the connection string is present and the     *)
(* provider call did not fail; with a missing connection string no         *)
(* provider client was built and no token request made.                    *)
(***************************************************************************)
C20_HealthProbeReports ==
    \A w \in Workers :
        (impl = "health" /\ Done(w))
        => LET missing == ~Truthy(environ.CONNECTION_STRING)
           IN /\ (IsResponse(w) /\ Status(w) = 200)
                   => (~missing /\ ~ProbeFailed(w))
              /\ (missing \/ ProbeFailed(w))
                   => /\ IsResponse(w)
                      /\ Status(w) = 503
                      /\ call[w].result.body.status = "Unhealthy"
              /\ missing => (~call[w].clientBuilt /\ call[w].requests = <<>>)

\* a connection string with the value of its AccessKey part taken out
Redact(conn_str) ==
    IF ~HasAccessKey(conn_str)
    THEN conn_str
    ELSE LET key_start == Index(conn_str, "AccessKey=", 1) + 10
             semicolon == Index(conn_str, ";", key_start)
             key_end == IF semicolon # 0 THEN semicolon ELSE Len(conn_str) + 1
         IN Prefix(conn_str, key_start - 1)
            \o SubSeq(conn_str, key_end, Len(conn_str))

\* two connection strings that differ only in the access key
SameButSecret(a, b) == Truthy(a) /\ Truthy(b) /\ Redact(a) = Redact(b)

(***************************************************************************)
(* C18: the response of a health endpoint does not depend on the access    *)
(* key: run with a connection string that differs only in its access key,  *)
(* and given the same provider answer, the endpoint returns the same       *)
(* response.                                                               *)
(***************************************************************************)
C18_ResponseIndependentOfSecret ==
    \A w \in Workers :
        (impl \in Probes /\ Done(w) /\ IsResponse(w))
        => \A other \in ProbeConnectionStrings :
              SameButSecret(environ.CONNECTION_STRING, other)
              => call[w].result =
                    IF impl = "health"
                    THEN HealthResponse(other, HealthHub(environ),
                                        call[w].token, call[w].exc)
                    ELSE HealthzResponse(other, HealthzHub(environ))

\* the call's parameters pass the validation of its variant
Validated(w) ==
    /\ Truthy(call[w].room_id)
    /\ impl = "back" => (Truthy(call[w].user_id)
                         /\ call[w].role \in {"writer", "reader"})

(***************************************************************************)
(* C22: a token request is made only for a call whose parameters passed    *)
(* validation and whose permission list was computed, and it carries that  *)
(* list; a call answered 400 never built a provider client or made a token *)
(* request; a call answered 200 made a token request and got a token.      *)
(***************************************************************************)
C22_StepsInOrder ==
    \A w \in Workers :
        (impl \in {"backend", "back"} /\ Running(w))
        => /\ call[w].requests # <<>>
                => /\ Validated(w)
                   /\ call[w].roles # <<>>
                   /\ call[w].requests[1].roles = call[w].roles
           /\ (Done(w) /\ IsResponse(w) /\ Status(w) = 400)
                => /\ call[w].requests = <<>>
                   /\ ~call[w].clientBuilt
                   /\ call[w].exc.type = None
           /\ (Done(w) /\ IsResponse(w) /\ Status(w) = 200)
                => /\ call[w].requests # <<>>
                   /\ call[w].token.token # None

\* a call went through every step and was answered 200
C22_Witness ==
    \E w \in Workers :
        /\ impl = "back"
        /\ Done(w) /\ IsResponse(w) /\ Status(w) = 200
        /\ Validated(w)
        /\ call[w].requests # <<>>
        /\ call[w].requests[1].roles = call[w].roles

(***************************************************************************)
(* C23: in a deployment without a connection string no negotiate call      *)
(* constructs a provider client or makes a token request, at any step.     *)
(***************************************************************************)
C23_UnconfiguredNeverCallsProvider ==
    \A w \in Workers :
        (impl \in {"backend", "back"} /\ Running(w)
         /\ ~Truthy(environ.CONNECTION_STRING))
        => /\ ~call[w].clientBuilt
           /\ call[w].requests = <<>>
           /\ call[w].exc.type = None
           /\ call[w].pc \notin {"token", "respond", "except"}

\* a valid request ended in the unconfigured failure
C23_Witness ==
    \E w \in Workers :
        /\ impl = "back"
        /\ ~Truthy(environ.CONNECTION_STRING)
        /\ Done(w) /\ Validated(w)
        /\ IsResponse(w) /\ Status(w) = 500
        /\ call[w].result.body.error = "Connection string not configured"

(***************************************************************************)
(* C24: a negotiate call makes at most one token request; a call whose     *)
(* provider request failed ends as a failure (never a 200) having made     *)
(* no second request.                                                      *)
(***************************************************************************)
C24_AtMostOneTokenRequest ==
    \A w \in Workers :
        (impl \in {"backend", "back"} /\ Running(w))
        => /\ Len(call[w].requests) <= 1
           /\ (Done(w) /\ call[w].exc.type # None)
                => ~(IsResponse(w) /\ Status(w) = 200)

\* a call ended after its one token request failed
C24_Witness ==
    \E w \in Workers :
        /\ impl \in {"backend", "back"}
        /\ Done(w)
        /\ call[w].exc.type = "ServiceRequestError"
        /\ Len(call[w].requests) = 1

(***************************************************************************)
(* C30: a 200 response of backend holds an accessToken field only when     *)
(* INCLUDE_ACCESS_TOKEN is "true" in some letter case, and then it does.   *)
(***************************************************************************)
C30_AccessTokenOnlyOnRequest ==
    \A w \in Workers :
        (impl = "backend" /\ Done(w) /\ IsResponse(w) /\ Status(w) = 200)
        => ("accessToken" \in DOMAIN call[w].result.body
            <=> environ.INCLUDE_ACCESS_TOKEN \in {"true", "TRUE", "True"})

\* a 200 response that carries the token, the setting being "TRUE"
C30_Witness ==
    \E w \in Workers :
        /\ impl = "backend"
        /\ Done(w) /\ IsResponse(w) /\ Status(w) = 200
        /\ environ.INCLUDE_ACCESS_TOKEN = "TRUE"
        /\ call[w].result.body.accessToken = "jwt"

(***************************************************************************)
(* C29: a finished health call has answered 503 if its report lists an     *)
(* error and 200 if not, and its reported status is Unhealthy with errors, *)
(* Degraded with warnings and no errors, Healthy with neither.             *)
(***************************************************************************)
C29_StatusFollowsErrors ==
    \A w \in Workers :
        (impl = "health" /\ Done(w))
        => /\ IsResponse(w)
           /\ LET report == call[w].result.body IN
              /\ Status(w) = IF report.errors # <<>> THEN 503 ELSE 200
              /\ report.status = "Unhealthy" <=> report.errors # <<>>
              /\ report.status = "Degraded"
                   <=> (report.errors = <<>> /\ report.warnings # <<>>)
              /\ report.status = "Healthy"
                   <=> (report.errors = <<>> /\ report.warnings = <<>>)

(***************************************************************************)
(* C26: a GET or POST call, whatever its parameters and body, either has   *)
(* its parameters accepted or ends with a 400 response; validation raises  *)
(* no exception.                                                           *)
(***************************************************************************)
C26_ValidationNeverRaises ==
    \A w \in Workers :
        (impl \in {"backend", "back"} /\ Done(w)
         /\ call[w].req.method \in {"GET", "POST"}
         /\ ~Validated(w))
        => (IsResponse(w) /\ Status(w) = 400)

(***************************************************************************)
(* The concurrent host: every worker takes calls, in any interleaving.     *)
(* The requests are fewer than under Spec: a writer and a reader of        *)
(* different rooms, and an unnamed user.                                   *)
(***************************************************************************)
ConcurrentRequest(room_id, username, role) ==
    [method |-> "GET", room_id |-> room_id, username |-> username,
     user_id |-> None, role |-> role, body |-> NoBody]

ConcurrentRequests ==
    { ConcurrentRequest("r1", "alice", "writer"),
      ConcurrentRequest("r2", "alice", "reader"),
      ConcurrentRequest("r2", None, "reader") }

InitConcurrent ==
    /\ impl \in {"backend", "back"}
    /\ environ \in [CONNECTION_STRING : {None, ConnectionString},
                    INCLUDE_ACCESS_TOKEN : {None},
                    WEB_PUBSUB_HUB_NAME : {None}]
    /\ pool = Workers
    /\ call = [w \in Workers |-> NoCall]
    /\ uuidCount = 0

ReceiveConcurrent(w) ==
    /\ w \in pool
    /\ call[w].pc = "idle"
    /\ \E r \in ConcurrentRequests :
          call' = [call EXCEPT ![w] = [NoCall EXCEPT !.pc = "start", !.req = r]]
    /\ UNCHANGED <<impl, environ, pool, uuidCount>>

NextConcurrent ==
    \E w \in Workers :
        \/ ReceiveConcurrent(w)
        \/ BackendMain(w)
        \/ BackMain(w)
        \/ Return(w)

SpecConcurrent == InitConcurrent /\ [][NextConcurrent]_vars

\* what a call's own request determines: its room, its named user (None
\* when the identity is to be generated) and its permission list
OwnRoom(w) ==
    IF impl = "backend" THEN call[w].req.room_id ELSE BackRoomId(call[w].req)

OwnUser(w) ==
    IF impl = "backend"
    THEN (IF Truthy(BackendUserParam(call[w].req))
          THEN BackendUserParam(call[w].req) ELSE None)
    ELSE BackUsername(call[w].req)

OwnRoles(w) ==
    IF impl = "backend"
    THEN BackendRoles(BackendRole(call[w].req.role), OwnRoom(w))
    ELSE BackRoles(BackRole(call[w].req))

\* a result with the generated identity blanked
Anonymous(c) ==
    IF c.generated /\ c.result.kind = "response" /\ c.result.json
       /\ "userId" \in DOMAIN c.result.body
    THEN [c.result EXCEPT !.body.userId = "<generated>"]
    ELSE c.result

(***************************************************************************)
(* C25: with calls running concurrently, every token request and every     *)
(* 200 response of a call carries the room, identity and permissions of    *)
(* that call's own request; a generated identity is given to one call      *)
(* only; and two finished calls with the same request and the same         *)
(* provider answer have the same result (up to the generated identity).    *)
(***************************************************************************)
C25_CallsIndependent ==
    \A w \in Workers :
        (impl \in {"backend", "back"} /\ Running(w))
        => /\ \A i \in DOMAIN call[w].requests :
                LET sent == call[w].requests[i] IN
                /\ sent.roles = OwnRoles(w)
                /\ sent.user_id = call[w].user_id
                /\ OwnUser(w) # None => sent.user_id = OwnUser(w)
                /\ impl = "back" => sent.groups = <<OwnRoom(w)>>
           /\ call[w].generated
                => \A v \in Workers \ {w} : call[v].user_id # call[w].user_id
           /\ (Done(w) /\ IsResponse(w) /\ Status(w) = 200)
                => LET body == call[w].result.body IN
                   /\ body.url = Or(call[w].token.url, call[w].token.baseUrl)
                   /\ impl = "backend"
                        => /\ body.room = OwnRoom(w)
                           /\ body.roles = OwnRoles(w)
                           /\ body.userId = call[w].requests[1].user_id
           /\ \A v \in Workers \ {w} :
                (Done(w) /\ Done(v) /\ call[v].req = call[w].req
                 /\ call[v].token = call[w].token /\ call[v].exc = call[w].exc)
                => Anonymous(call[v]) = Anonymous(call[w])

\* two calls for different rooms and users have both been answered 200
C25_Witness ==
    \E v, w \in Workers :
        /\ v # w
        /\ Done(v) /\ IsResponse(v) /\ Status(v) = 200
        /\ Done(w) /\ IsResponse(w) /\ Status(w) = 200
        /\ OwnRoom(v) = "r1" /\ OwnRoom(w) = "r2"
        /\ call[v].user_id # call[w].user_id

(***************************************************************************)
(* C27: a finished send-message call whose body was not valid JSON has     *)
(* answered 400 and set no message; any other finished call has answered   *)
(* 200 and set exactly one message, which holds a userId field exactly     *)
(* when the body held a non-empty userId.  No call sets more than one.     *)
(***************************************************************************)
C27_OneMessagePerValidRequest ==
    \A w \in Workers :
        (impl = "send-message" /\ Running(w))
        => LET out == call[w].signalRMessages
               req_body == call[w].req.body
           IN /\ Len(out) <= 1
              /\ (Done(w) /\ req_body.kind = "invalid")
                   => (IsResponse(w) /\ Status(w) = 400 /\ out = <<>>)
              /\ (Done(w) /\ req_body.kind # "invalid")
                   => /\ IsResponse(w) /\ Status(w) = 200
                      /\ Len(out) = 1
                      /\ "userId" \in DOMAIN out[1] <=> Truthy(req_body.userId)

(***************************************************************************)
(* C21: whenever the Web PubSub test client has sent a group message, its  *)
(* connection is established and it has joined the room it negotiated      *)
(* for, and every message it has sent is addressed to that room.           *)
(***************************************************************************)
C21_SendsOnlyToJoinedRoom ==
    \A w \in Workers :
        (impl = "test_webpubsub" /\ Running(w))
        => LET client == call[w].client IN
           /\ client.sent # <<>>
                => /\ client.opened /\ client.connected
                   /\ client.negotiated # None
                   /\ client.negotiated \in client.joined
           /\ \A i \in DOMAIN client.sent :
                 client.sent[i].group = client.negotiated

\* the client negotiated for r2, joined it and sent both its messages
C21_Witness ==
    \E w \in Workers :
        /\ impl = "test_webpubsub"
        /\ call[w].client.negotiated = "r2"
        /\ call[w].client.joined = {"r2"}
        /\ Len(call[w].client.sent) = 2

(***************************************************************************)
(* C28: a test client run that has finished, having built a connection     *)
(* and attempted to start or open it, has stopped or closed that           *)
(* connection, whichever way it left: timeout, exception, keyboard         *)
(* interrupt or normal end.                                                *)
(***************************************************************************)
C28_ConnectionAlwaysClosed ==
    \A w \in Workers :
        (impl \in TestClients /\ Done(w)
         /\ call[w].client.built /\ call[w].client.opened)
        => call[w].client.closed

\* a run left on the connect timeout, with the connection closed
C28_Witness ==
    \E w \in Workers :
        /\ impl = "test_webpubsub"
        /\ Done(w)
        /\ call[w].client.opened /\ ~call[w].client.connected
        /\ call[w].exc.type = None
        /\ call[w].client.closed

=============================================================================
